---- MODULE Spec2Model ----
(***************************************************************************)
(* The NYC taxi ETL notebook (nyctaxi_raw_dataset_etl.ipynb) as a state    *)
(* machine: one action per notebook cell.  A frame (DynamicFrame or        *)
(* DataFrame) is a record [schema, rows, sort]: the ordered column names,  *)
(* the unordered collection of rows, and the orderBy columns.  A row of    *)
(* the yellow table carries its position in the source table as rid, so    *)
(* that "the row derived from R" can be stated; a row's cols maps column   *)
(* names to values.  A nullable value is <<>> (null) or <<v>>.             *)
(***************************************************************************)
EXTENDS Integers, Sequences, FiniteSets, TLC

VARIABLES
    catalog,            \* the Glue catalog tables: the source snapshot
    dest,               \* the files under s3://.../yellow_opt/
    pc,                 \* the notebook cell that runs next
    runs,               \* the run of the notebook that is in progress
    error,              \* the exception raised to the caller, "none" if none
    yellow_dyf, taxi_zone_dyf, payment_type_dyf, rate_code_dyf,
    pu_taxi_zone_df, do_taxi_zone_df, payment_type_df, rate_code_df,
    yellow_df, taxi_zone_df, yellow_parts, yellow_opt_df,
    first_contents       \* what the first successful run left at the destination

vars == <<catalog, dest, pc, runs, error,
          yellow_dyf, taxi_zone_dyf, payment_type_dyf, rate_code_dyf,
          pu_taxi_zone_df, do_taxi_zone_df, payment_type_df, rate_code_df,
          yellow_df, taxi_zone_df, yellow_parts, yellow_opt_df, first_contents>>

\* ------------------------------------------------------------- bounds
MaxFacts == 2           \* rows of the yellow table
MaxRuns == 2            \* successive runs of the notebook
MaxId == 2              \* the ids of the snapshot are 1..MaxId

\* ------------------------------------------------------------- values
NULL == <<>>
Some(v) == <<v>>

NoFrame == [schema |-> <<>>, rows |-> {}, sort |-> <<>>]

Range(s) == {s[i] : i \in DOMAIN s}

\* ------------------------------------------------------------- timestamps
\* A timestamp string is the sequence of its characters.
DigitChars == <<"0", "1", "2", "3", "4", "5", "6", "7", "8", "9">>

IsDigit(c) == c \in Range(DigitChars)

DigitVal(c) == (CHOOSE i \in DOMAIN DigitChars : DigitChars[i] = c) - 1

RECURSIVE DigitsToInt(_)
DigitsToInt(s) ==
    IF s = <<>> THEN 0
    ELSE 10 * DigitsToInt(SubSeq(s, 1, Len(s) - 1)) + DigitVal(s[Len(s)])

RECURSIVE IntToDigits(_)
IntToDigits(n) ==
    IF n < 10 THEN <<DigitChars[n + 1]>>
    ELSE Append(IntToDigits(n \div 10), DigitChars[(n % 10) + 1])

\* "yyyy-MM-dd HH:mm:ss"
TimestampFormat ==
    <<"y", "y", "y", "y", "-", "M", "M", "-", "d", "d", " ",
      "H", "H", ":", "m", "m", ":", "s", "s">>

PatternLetters == {"y", "M", "d", "H", "m", "s"}

\* The digits of s at the positions of one pattern letter.
Field(s, fmt, letter) ==
    DigitsToInt(SelectSeq([i \in DOMAIN fmt |-> IF fmt[i] = letter THEN s[i] ELSE "x"],
                          IsDigit))

IsLeap(y) == (y % 4 = 0 /\ y % 100 # 0) \/ y % 400 = 0

DaysIn(y, m) ==
    IF m = 2 THEN (IF IsLeap(y) THEN 29 ELSE 28)
    ELSE IF m \in {4, 6, 9, 11} THEN 30 ELSE 31

Shaped(s, fmt) ==
    /\ Len(s) = Len(fmt)
    /\ \A i \in DOMAIN fmt :
          IF fmt[i] \in PatternLetters THEN IsDigit(s[i]) ELSE s[i] = fmt[i]

\* to_timestamp(col, fmt): the timestamp the string denotes under fmt, null
\* when the string does not parse.
to_timestamp_lenient(s, fmt) ==
    IF ~Shaped(s, fmt) THEN NULL
    ELSE LET mo == Field(s, fmt, "M")
         IN Some([year |-> Field(s, fmt, "y") + ((mo + 11) \div 12) - 1,
                  month |-> ((mo + 11) % 12) + 1,
                  day |-> Field(s, fmt, "d"), hour |-> Field(s, fmt, "H"),
                  minute |-> Field(s, fmt, "m"), second |-> Field(s, fmt, "s")])

to_timestamp(s, fmt) ==
    IF ~Shaped(s, fmt) THEN NULL
    ELSE LET y == Field(s, fmt, "y")
             mo == Field(s, fmt, "M")
             d == Field(s, fmt, "d")
             h == Field(s, fmt, "H")
             mi == Field(s, fmt, "m")
             se == Field(s, fmt, "s")
         IN IF /\ mo \in 1..12
               /\ d \in 1..DaysIn(y, mo)
               /\ h \in 0..23
               /\ mi \in 0..59
               /\ se \in 0..59
            THEN Some([year |-> y, month |-> mo, day |-> d,
                       hour |-> h, minute |-> mi, second |-> se])
            ELSE NULL

year(ts) == IF ts = NULL THEN NULL ELSE Some(ts[1].year)
month(ts) == IF ts = NULL THEN NULL ELSE Some(ts[1].month)
dayofmonth(ts) == IF ts = NULL THEN NULL ELSE Some(ts[1].day)

\* ------------------------------------------------------------- frames
\* apply_mapping: exactly the target columns, each the source column cast
\* to the target type.  Every mapping of the notebook keeps the type.
Cast(v, from, to) == v

apply_mapping(dyf, mappings) ==
    [schema |-> [i \in DOMAIN mappings |-> mappings[i][3]],
     rows |-> {[t \in {mappings[i][3] : i \in DOMAIN mappings} |->
                  LET m == CHOOSE m \in Range(mappings) : m[3] = t
                  IN Cast(r[m[1]], m[2], m[4])] : r \in dyf.rows},
     sort |-> <<>>]

PuTaxiZoneMapping ==
    << <<"locationid", "bigint", "pu_locationid", "bigint">>,
       <<"borough", "string", "pu_borough", "string">>,
       <<"zone", "string", "pu_zone", "string">>,
       <<"service_zone", "string", "pu_service_zone", "string">> >>

DoTaxiZoneMapping ==
    << <<"locationid", "bigint", "do_locationid", "bigint">>,
       <<"borough", "string", "do_borough", "string">>,
       <<"zone", "string", "do_zone", "string">>,
       <<"service_zone", "string", "do_service_zone", "string">> >>

PaymentTypeMapping ==
    << <<"id", "bigint", "payment_type_id", "bigint">>,
       <<"name", "string", "payment_type_name", "string">> >>

RateCodeMapping ==
    << <<"id", "bigint", "ratecode_id", "bigint">>,
       <<"name", "string", "ratecode_name", "string">> >>

\* The frame the rate-code mapping is applied to.
RateCodeInputFixed(pay_dyf, rate_dyf) == rate_dyf

RateCodeInput(pay_dyf, rate_dyf) == pay_dyf

\* left.join(broadcast(right), left[lkey] == right[rkey]): an inner join.
JoinCross(left, right, lkey, rkey) ==
    [schema |-> left.schema \o right.schema,
     rows |-> {[rid |-> p[1].rid, cols |-> p[1].cols @@ p[2]] :
                  p \in left.rows \X right.rows},
     sort |-> <<>>]

JoinLeftOuter(left, right, lkey, rkey) ==
    [schema |-> left.schema \o right.schema,
     rows |-> {[rid |-> p[1].rid, cols |-> p[1].cols @@ p[2]] :
                  p \in {q \in left.rows \X right.rows : q[1].cols[lkey] = q[2][rkey]}}
              \cup {[rid |-> l.rid,
                     cols |-> l.cols @@ [c \in Range(right.schema) |-> NULL]] :
                       l \in {m \in left.rows :
                                \A r \in right.rows : m.cols[lkey] # r[rkey]}},
     sort |-> <<>>]

Join(left, right, lkey, rkey) ==
    [schema |-> left.schema \o right.schema,
     rows |-> {[rid |-> p[1].rid, cols |-> p[1].cols @@ p[2]] :
                  p \in {q \in left.rows \X right.rows : q[1].cols[lkey] = q[2][rkey]}},
     sort |-> <<>>]

\* withColumn(name, expr): a column of that name is replaced, a new one is
\* appended; expr gives the column's value for each row.
Cols(df) == {r.cols : r \in df.rows}

WithColumn(df, name, expr) ==
    [schema |-> IF name \in Range(df.schema) THEN df.schema
                ELSE Append(df.schema, name),
     rows |-> {[rid |-> r.rid, cols |-> (name :> expr[r.cols]) @@ r.cols] :
                  r \in df.rows},
     sort |-> df.sort]

OrderBy(df, cols) == [df EXCEPT !.sort = cols]

Drop(df, names) ==
    [schema |-> SelectSeq(df.schema, LAMBDA c : c \notin names),
     rows |-> {[rid |-> r.rid,
                cols |-> [c \in DOMAIN r.cols \ names |-> r.cols[c]]] : r \in df.rows},
     sort |-> df.sort]

DroppedColumnsAndJoinedIds ==
    {"store_and_fwd_flag", "pulocationid", "dolocationid", "payment_type_id",
     "ratecodeid", "tpep_pickup_datetime", "tpep_dropoff_datetime",
     "pu_locationid", "do_locationid", "ratecode_id", "payment_type"}

DroppedColumns ==
    {"store_and_fwd_flag", "pulocationid", "dolocationid", "payment_type_id",
     "ratecodeid", "tpep_pickup_datetime", "tpep_dropoff_datetime"}

WithTimes(df) ==
    LET a == WithColumn(df, "pu_datetime",
                 [c \in Cols(df) |->
                     to_timestamp(c["tpep_pickup_datetime"], TimestampFormat)])
        b == WithColumn(a, "do_datetime",
                 [c \in Cols(a) |->
                     to_timestamp(c["tpep_dropoff_datetime"], TimestampFormat)])
        y == WithColumn(b, "pu_year", [c \in Cols(b) |-> year(c["pu_datetime"])])
        m == WithColumn(y, "pu_month", [c \in Cols(y) |-> month(c["pu_datetime"])])
    IN WithColumn(m, "pu_day", [c \in Cols(m) |-> dayofmonth(c["pu_datetime"])])

\* The value of yellow_opt_df.
Enriched(yellow, pu, do, pay, rate) ==
    LET j1 == Join(yellow, pu, "pulocationid", "pu_locationid")
        j2 == Join(j1, do, "dolocationid", "do_locationid")
        j3 == Join(j2, pay, "payment_type", "payment_type_id")
        j4 == Join(j3, rate, "ratecodeid", "ratecode_id")
    IN Drop(OrderBy(WithTimes(j4), <<"pu_year", "pu_month", "pu_day">>),
            DroppedColumns)

\* ------------------------------------------------------------- the sink
\* Hive-style partitioning: a partition value is written into the directory
\* name, a null as the default-partition name.
HiveDefault == <<"__HIVE_DEFAULT_PARTITION__">>

Segment(v) == IF v = NULL THEN HiveDefault ELSE IntToDigits(v[1])

PartitionColumns == <<"pu_year", "pu_month">>

\* The directory partitionBy(partCols) puts a row in.
PartitionDirByYearDay(cols, partCols) ==
    [c \in Range(partCols) |->
        Segment(IF c = "pu_month" THEN cols["pu_day"] ELSE cols[c])]

PartitionDir(cols, partCols) == [c \in Range(partCols) |-> Segment(cols[c])]

\* The files one job writes: per directory, the rows of that directory
\* without the partition columns.
KeyedRowsNoNull(df, partCols) ==
    {r \in df.rows : \A c \in Range(partCols) : r.cols[c] # NULL}

KeyedRows(df, partCols) == df.rows

NewFiles(df, partCols, job) ==
    {[dir |-> d, job |-> job,
      rows |-> {[rid |-> r.rid,
                 cols |-> [c \in DOMAIN r.cols \ Range(partCols) |-> r.cols[c]]] :
                   r \in {q \in KeyedRows(df, partCols) :
                            PartitionDir(q.cols, partCols) = d}}] :
        d \in {PartitionDir(r.cols, partCols) : r \in KeyedRows(df, partCols)}}

\* write.mode(mode)...save(path): what the destination holds afterwards.
SaveAppend(mode, prior, files) == prior \cup files

Save(mode, prior, files) ==
    CASE mode = "overwrite" -> files
      [] mode = "append" -> prior \cup files

\* What the destination holds, whichever job wrote it: how many files there
\* are of each directory and content.
Stripped(f) == [dir |-> f.dir, rows |-> f.rows]

Contents(d) ==
    [x \in {Stripped(f) : f \in d} |-> Cardinality({f \in d : Stripped(f) = x})]

\* Reading the destination back: a partition column's value is taken from
\* the directory name.
Unsegment(seg) == IF seg = HiveDefault THEN NULL ELSE Some(DigitsToInt(seg))

FileRows(f) ==
    {[rid |-> r.rid, cols |-> r.cols @@ [c \in DOMAIN f.dir |-> Unsegment(f.dir[c])]] :
        r \in f.rows}

\* How often each row is read.
ReadBack(d) ==
    [r \in UNION {FileRows(f) : f \in d} |-> Cardinality({f \in d : r \in FileRows(f)})]

\* ------------------------------------------------------------- the pipeline
YellowSchema ==
    <<"tpep_pickup_datetime", "tpep_dropoff_datetime", "trip_distance", "ratecodeid",
      "store_and_fwd_flag", "pulocationid", "dolocationid", "payment_type",
      "fare_amount">>

TaxiZoneSchema == <<"locationid", "borough", "zone", "service_zone">>

NameSchema == <<"id", "name">>

\* create_dynamic_frame.from_catalog
FromCatalog(schema, table) == [schema |-> schema, rows |-> table, sort |-> <<>>]

YellowFromCatalog(table) ==
    FromCatalog(YellowSchema, {[rid |-> i, cols |-> table[i]] : i \in DOMAIN table})

\* yellow_opt_df as a function of the source snapshot.
PipelineOutput(cat) ==
    LET taxi == FromCatalog(TaxiZoneSchema, cat.taxizone)
        pay == FromCatalog(NameSchema, cat.paymenttype)
        rate == FromCatalog(NameSchema, cat.ratecode)
    IN Enriched(YellowFromCatalog(cat.yellow),
                apply_mapping(taxi, PuTaxiZoneMapping),
                apply_mapping(taxi, DoTaxiZoneMapping),
                apply_mapping(pay, PaymentTypeMapping),
                apply_mapping(RateCodeInput(pay, rate), RateCodeMapping))

LoadedParts == 4
Vcpus == 4
Dpus == 10

\* ------------------------------------------------------------- inputs
Ids == 1..MaxId
LastId == MaxId

ZoneRow(i, v) ==
    [locationid |-> i, borough |-> "Queens", zone |-> "zone" \o ToString(i) \o v,
     service_zone |-> "Boro Zone"]

NameRow(i, n) == [id |-> i, name |-> n \o ToString(i)]

\* Each lookup table: complete, with one id missing, with one id twice.
TaxiZoneTables ==
    { {ZoneRow(i, "") : i \in Ids},
      {ZoneRow(i, "") : i \in Ids \ {LastId}},
      {ZoneRow(i, "") : i \in Ids} \cup {ZoneRow(1, "b")} }

PaymentTypeTables ==
    { {NameRow(i, "pay") : i \in Ids},
      {NameRow(i, "pay") : i \in Ids \ {LastId}},
      {NameRow(i, "pay") : i \in Ids} \cup {NameRow(1, "payb")} }

RateCodeTables ==
    { {NameRow(i, "rate") : i \in Ids},
      {NameRow(i, "rate") : i \in Ids \ {1}} }

TsJan == <<"2", "0", "1", "9", "-", "0", "1", "-", "1", "5", " ",
           "0", "8", ":", "3", "0", ":", "0", "0">>
TsJanLater == <<"2", "0", "1", "9", "-", "0", "1", "-", "1", "5", " ",
                "0", "9", ":", "0", "5", ":", "1", "0">>
TsFeb == <<"2", "0", "1", "9", "-", "0", "2", "-", "0", "3", " ",
           "1", "0", ":", "0", "0", ":", "0", "0">>
TsDec == <<"2", "0", "1", "8", "-", "1", "2", "-", "3", "1", " ",
           "2", "3", ":", "5", "9", ":", "5", "9">>
TsBadMonth == <<"2", "0", "1", "9", "-", "1", "3", "-", "0", "1", " ",
                "0", "0", ":", "0", "0", ":", "0", "0">>
TsText == <<"n", "/", "a">>

PickupStrings == {TsJan, TsFeb, TsBadMonth, TsText}
DropoffStrings == {TsJanLater, TsBadMonth}

FactRow(pu, do, pay, rate, pick, drop) ==
    [tpep_pickup_datetime |-> pick, tpep_dropoff_datetime |-> drop,
     trip_distance |-> 3, ratecodeid |-> rate, store_and_fwd_flag |-> "N",
     pulocationid |-> pu, dolocationid |-> do, payment_type |-> pay,
     fare_amount |-> 12]

SeqsUpTo(S, n) == UNION {[1..k -> S] : k \in 0..n}

FullTaxiZone == {ZoneRow(i, "") : i \in Ids}
FullPaymentType == {NameRow(i, "pay") : i \in Ids}
FullRateCode == {NameRow(i, "rate") : i \in Ids}

\* Snapshots that exercise the two zone joins, the two name joins, the
\* timestamps, and single trips with everything varying.
ZoneSnapshots ==
    [yellow : SeqsUpTo({FactRow(pu, do, 1, LastId, TsJan, TsJanLater) :
                           pu \in Ids, do \in Ids}, MaxFacts),
     taxizone : TaxiZoneTables,
     paymenttype : {FullPaymentType},
     ratecode : {FullRateCode}]

NameSnapshots ==
    [yellow : SeqsUpTo({FactRow(1, LastId, pay, rate, TsJan, TsJanLater) :
                           pay \in Ids, rate \in Ids}, MaxFacts),
     taxizone : {FullTaxiZone},
     paymenttype : PaymentTypeTables,
     ratecode : RateCodeTables]

TimeSnapshots ==
    [yellow : SeqsUpTo({FactRow(1, LastId, 1, LastId, p, d) :
                           p \in PickupStrings, d \in DropoffStrings}, MaxFacts),
     taxizone : {FullTaxiZone},
     paymenttype : {FullPaymentType},
     ratecode : {FullRateCode}]

TripSnapshots ==
    [yellow : {<<FactRow(pu, do, pay, rate, p, TsJanLater)>> :
                  pu \in Ids, do \in Ids, pay \in Ids, rate \in Ids,
                  p \in {TsJan, TsBadMonth}},
     taxizone : TaxiZoneTables,
     paymenttype : PaymentTypeTables,
     ratecode : RateCodeTables]

\* What an earlier job, run on an older snapshot, left at the destination.
StaleSnapshot ==
    [yellow |-> <<FactRow(1, 1, 1, 1, TsDec, TsDec)>>,
     taxizone |-> FullTaxiZone,
     paymenttype |-> FullPaymentType,
     ratecode |-> FullRateCode]

StaleDest == NewFiles(PipelineOutput(StaleSnapshot), PartitionColumns, 0)

\* ------------------------------------------------------------- the notebook
Init ==
    /\ \/ catalog \in ZoneSnapshots \cup NameSnapshots \cup TripSnapshots /\ dest = {}
       \/ catalog \in TimeSnapshots /\ dest \in {{}, StaleDest}
    /\ pc = "start"
    /\ runs = 1
    /\ error = "none"
    /\ yellow_dyf = NoFrame /\ taxi_zone_dyf = NoFrame
    /\ payment_type_dyf = NoFrame /\ rate_code_dyf = NoFrame
    /\ pu_taxi_zone_df = NoFrame /\ do_taxi_zone_df = NoFrame
    /\ payment_type_df = NoFrame /\ rate_code_df = NoFrame
    /\ yellow_df = NoFrame /\ taxi_zone_df = NoFrame
    /\ yellow_parts = 0
    /\ yellow_opt_df = NoFrame
    /\ first_contents = Contents({})

\* Cell 2: load the four tables.
Load ==
    /\ pc = "start"
    /\ yellow_dyf' = YellowFromCatalog(catalog.yellow)
    /\ taxi_zone_dyf' = FromCatalog(TaxiZoneSchema, catalog.taxizone)
    /\ payment_type_dyf' = FromCatalog(NameSchema, catalog.paymenttype)
    /\ rate_code_dyf' = FromCatalog(NameSchema, catalog.ratecode)
    /\ pc' = "loaded"
    /\ UNCHANGED <<catalog, dest, runs, error, pu_taxi_zone_df, do_taxi_zone_df,
                   payment_type_df, rate_code_df, yellow_df, taxi_zone_df,
                   yellow_parts, yellow_opt_df, first_contents>>

\* Cell 3: map the look-up tables, convert to DataFrames.
ApplyMappings ==
    /\ pc = "loaded"
    /\ pu_taxi_zone_df' = apply_mapping(taxi_zone_dyf, PuTaxiZoneMapping)
    /\ do_taxi_zone_df' = apply_mapping(taxi_zone_dyf, DoTaxiZoneMapping)
    /\ payment_type_df' = apply_mapping(payment_type_dyf, PaymentTypeMapping)
    /\ rate_code_df' = apply_mapping(RateCodeInput(payment_type_dyf, rate_code_dyf),
                                     RateCodeMapping)
    /\ yellow_df' = yellow_dyf
    /\ taxi_zone_df' = taxi_zone_dyf
    /\ yellow_parts' = LoadedParts
    /\ pc' = "mapped"
    /\ UNCHANGED <<catalog, dest, runs, error, yellow_dyf, taxi_zone_dyf,
                   payment_type_dyf, rate_code_dyf, yellow_opt_df, first_contents>>

\* Cell 4: repartition and cache the yellow table.
Repartition ==
    /\ pc = "mapped"
    /\ yellow_parts' = Vcpus * Dpus
    /\ pc' = "cached"
    /\ UNCHANGED <<catalog, dest, runs, error, yellow_dyf, taxi_zone_dyf,
                   payment_type_dyf, rate_code_dyf, pu_taxi_zone_df, do_taxi_zone_df,
                   payment_type_df, rate_code_df, yellow_df, taxi_zone_df,
                   yellow_opt_df, first_contents>>

\* Cell 5: join with the look-ups, add and drop columns.
JoinEnrich ==
    /\ pc = "cached"
    /\ yellow_opt_df' = Enriched(yellow_df, pu_taxi_zone_df, do_taxi_zone_df,
                                 payment_type_df, rate_code_df)
    /\ pc' = "joined"
    /\ UNCHANGED <<catalog, dest, runs, error, yellow_dyf, taxi_zone_dyf,
                   payment_type_dyf, rate_code_dyf, pu_taxi_zone_df, do_taxi_zone_df,
                   payment_type_df, rate_code_df, yellow_df, taxi_zone_df,
                   yellow_parts, first_contents>>

\* Cell 7: the write succeeds.
Write ==
    /\ pc = "joined"
    /\ dest' = Save("overwrite", dest, NewFiles(yellow_opt_df, PartitionColumns, runs))
    /\ first_contents' = IF runs = 1 THEN Contents(dest') ELSE first_contents
    /\ pc' = "done"
    /\ UNCHANGED <<catalog, runs, error, yellow_dyf, taxi_zone_dyf,
                   payment_type_dyf, rate_code_dyf, pu_taxi_zone_df, do_taxi_zone_df,
                   payment_type_df, rate_code_df, yellow_df, taxi_zone_df,
                   yellow_parts, yellow_opt_df>>

\* Cell 7: the write fails (destination unreachable, permission denied).  The
\* notebook neither catches the error nor cleans up: the destination is left
\* as the engine left it, untouched or with some of the new files in place
\* of the prior content.
WriteFail ==
    /\ pc = "joined"
    /\ \E left \in {dest} \cup
                   (SUBSET NewFiles(yellow_opt_df, PartitionColumns, runs)
                      \ {NewFiles(yellow_opt_df, PartitionColumns, runs)}) :
          dest' = left
    /\ error' = "IOError"
    /\ pc' = "failed"
    /\ UNCHANGED <<catalog, runs, yellow_dyf, taxi_zone_dyf,
                   payment_type_dyf, rate_code_dyf, pu_taxi_zone_df, do_taxi_zone_df,
                   payment_type_df, rate_code_df, yellow_df, taxi_zone_df,
                   yellow_parts, yellow_opt_df, first_contents>>

\* The notebook is run again, in a fresh session, on the same snapshot and
\* destination.
Rerun ==
    /\ pc = "done"
    /\ runs < MaxRuns
    /\ runs' = runs + 1
    /\ pc' = "start"
    /\ yellow_dyf' = NoFrame /\ taxi_zone_dyf' = NoFrame
    /\ payment_type_dyf' = NoFrame /\ rate_code_dyf' = NoFrame
    /\ pu_taxi_zone_df' = NoFrame /\ do_taxi_zone_df' = NoFrame
    /\ payment_type_df' = NoFrame /\ rate_code_df' = NoFrame
    /\ yellow_df' = NoFrame /\ taxi_zone_df' = NoFrame
    /\ yellow_parts' = 0
    /\ yellow_opt_df' = NoFrame
    /\ UNCHANGED <<catalog, dest, error, first_contents>>

Next ==
    \/ Load
    \/ ApplyMappings
    \/ Repartition
    \/ JoinEnrich
    \/ Write
    \/ WriteFail
    \/ Rerun

Spec == Init /\ [][Next]_vars

\* ------------------------------------------------------------- properties
\* yellow_opt_df holds the result of this run's cell 5.
Joined == pc \in {"joined", "done", "failed"}

FactIds == DOMAIN catalog.yellow

Fact(i) == catalog.yellow[i]

OutputOf(i) == {r \in yellow_opt_df.rows : r.rid = i}

\* The rows of a look-up frame whose key column holds the value.
Matches(df, key, v) == {r \in df.rows : r[key] = v}

MatchedInAll(i) ==
    /\ Matches(pu_taxi_zone_df, "pu_locationid", Fact(i).pulocationid) # {}
    /\ Matches(do_taxi_zone_df, "do_locationid", Fact(i).dolocationid) # {}
    /\ Matches(payment_type_df, "payment_type_id", Fact(i).payment_type) # {}
    /\ Matches(rate_code_df, "ratecode_id", Fact(i).ratecodeid) # {}

\* C1: a fact row that matches one row of the taxi-zone table for pick-up and
\* for drop-off, one row of the payment-type table and one row of the
\* rate-code table has exactly one output row, whose pu_zone, do_zone,
\* payment_type_name and ratecode_name are those rows' zone, zone, name and
\* name.
C1_EnrichedFromRespectiveLookups ==
    Joined =>
      \A i \in FactIds :
         LET pu == {z \in catalog.taxizone : z.locationid = Fact(i).pulocationid}
             do == {z \in catalog.taxizone : z.locationid = Fact(i).dolocationid}
             pay == {n \in catalog.paymenttype : n.id = Fact(i).payment_type}
             rate == {n \in catalog.ratecode : n.id = Fact(i).ratecodeid}
         IN (/\ Cardinality(pu) = 1 /\ Cardinality(do) = 1
             /\ Cardinality(pay) = 1 /\ Cardinality(rate) = 1)
            => /\ Cardinality(OutputOf(i)) = 1
               /\ \A r \in OutputOf(i) :
                     /\ \E z \in pu : r.cols["pu_zone"] = z.zone
                     /\ \E z \in do : r.cols["do_zone"] = z.zone
                     /\ \E n \in pay : r.cols["payment_type_name"] = n.name
                     /\ \E n \in rate : r.cols["ratecode_name"] = n.name

\* C2: a fact row without a match in one of the four look-up frames the joins
\* use has no output row; no error is raised for it, and a run that
\* completes has written exactly the rows of the matched fact rows.
C2_UnmatchedRowsDropped ==
    /\ Joined => \A i \in FactIds : ~MatchedInAll(i) => OutputOf(i) = {}
    /\ pc \in {"joined", "done"} => error = "none"
    /\ pc = "done" =>
          /\ \A i \in FactIds :
                MatchedInAll(i) <=> (\E f \in dest : \E r \in f.rows : r.rid = i)
          /\ \A f \in dest : \A r \in f.rows : OutputOf(r.rid) # {}

C2_Witness ==
    /\ pc = "done"
    /\ \E i, j \in FactIds :
          /\ ~MatchedInAll(i)
          /\ MatchedInAll(j)
          /\ \E f \in dest : \E r \in f.rows : r.rid = j

\* C3: when a second (or later) run on the same snapshot and destination has
\* completed, the destination holds what the first run left, no more and no
\* less, and every file in it was written by this run.
C3_RerunLeavesFirstResult ==
    (pc = "done" /\ runs >= 2) =>
        /\ Contents(dest) = first_contents
        /\ \A f \in dest : f.job = runs

C3_Witness ==
    /\ pc = "done"
    /\ runs = 2
    /\ Cardinality({f.dir : f \in dest}) >= 2

\* C5, as claimed: the output schema holds none of the joined id columns
\* either (pu_locationid, do_locationid, payment_type_id, ratecode_id,
\* payment_type, ratecodeid).
C5_NoJoinedIdColumns ==
    Joined =>
        /\ Range(yellow_opt_df.schema) =
              {"trip_distance", "fare_amount",
               "pu_borough", "pu_zone", "pu_service_zone",
               "do_borough", "do_zone", "do_service_zone",
               "payment_type_name", "ratecode_name",
               "pu_datetime", "do_datetime", "pu_year", "pu_month", "pu_day"}
        /\ Range(yellow_opt_df.schema) \cap
              {"store_and_fwd_flag", "pulocationid", "dolocationid", "pu_locationid",
               "do_locationid", "payment_type_id", "ratecode_id", "payment_type",
               "ratecodeid", "tpep_pickup_datetime", "tpep_dropoff_datetime"} = {}

\* C5, amended: the output schema is the retained fact columns (payment_type
\* among them), the look-up columns but payment_type_id (pu_locationid,
\* do_locationid and ratecode_id among them) and the five derived columns,
\* each once; every row has exactly these columns.
OutputColumns ==
    {"trip_distance", "fare_amount", "payment_type",
     "pu_locationid", "pu_borough", "pu_zone", "pu_service_zone",
     "do_locationid", "do_borough", "do_zone", "do_service_zone",
     "payment_type_name", "ratecode_id", "ratecode_name",
     "pu_datetime", "do_datetime", "pu_year", "pu_month", "pu_day"}

C5_SchemaAsDropped ==
    Joined =>
        /\ Range(yellow_opt_df.schema) = OutputColumns
        /\ Len(yellow_opt_df.schema) = Cardinality(OutputColumns)
        /\ \A r \in yellow_opt_df.rows : DOMAIN r.cols = OutputColumns

C5_Witness ==
    /\ pc = "joined"
    /\ yellow_opt_df.rows # {}
    /\ "ratecode_id" \in Range(yellow_opt_df.schema)

\* C6: after a successful run every output row is stored once, in the
\* directory named after the year and the month of its pu_datetime; there is
\* one directory per (pu_year, pu_month) pair of the output and none without
\* a row.
StoredIn(r, f) == \E q \in f.rows : q.rid = r.rid /\ \A c \in DOMAIN q.cols : q.cols[c] = r.cols[c]

C6_PartitionedByYearMonth ==
    pc = "done" =>
        /\ \A r \in yellow_opt_df.rows :
              /\ r.cols["pu_year"] = year(r.cols["pu_datetime"])
              /\ r.cols["pu_month"] = month(r.cols["pu_datetime"])
              /\ \E f \in dest :
                    /\ StoredIn(r, f)
                    /\ f.dir["pu_year"] = Segment(year(r.cols["pu_datetime"]))
                    /\ f.dir["pu_month"] = Segment(month(r.cols["pu_datetime"]))
                    /\ \A g \in dest : StoredIn(r, g) => g = f
        /\ Cardinality({f.dir : f \in dest}) =
              Cardinality({<<r.cols["pu_year"], r.cols["pu_month"]>> :
                              r \in yellow_opt_df.rows})
        /\ \A f \in dest : f.rows # {} /\ DOMAIN f.dir = {"pu_year", "pu_month"}

C6_Witness ==
    /\ pc = "done"
    /\ Cardinality({f.dir : f \in dest}) >= 2
    /\ \E f \in dest : Cardinality(f.rows) >= 1 /\ f.dir["pu_month"] = <<"2">>

Unparsable == {TsBadMonth, TsText}

C8_UnparsableTimestampIsNull ==
    /\ pc \in {"joined", "done"} => error = "none"
    /\ Joined =>
          /\ \A i \in FactIds : MatchedInAll(i) => OutputOf(i) # {}
          /\ \A r \in yellow_opt_df.rows :
                /\ Fact(r.rid).tpep_pickup_datetime \in Unparsable =>
                      /\ r.cols["pu_datetime"] = NULL
                      /\ r.cols["pu_year"] = NULL
                      /\ r.cols["pu_month"] = NULL
                      /\ r.cols["pu_day"] = NULL
                /\ Fact(r.rid).tpep_dropoff_datetime \in Unparsable =>
                      r.cols["do_datetime"] = NULL

C8_Witness ==
    /\ pc = "joined"
    /\ \E r \in yellow_opt_df.rows : Fact(r.rid).tpep_pickup_datetime = TsBadMonth
    /\ \E r \in yellow_opt_df.rows : Fact(r.rid).tpep_dropoff_datetime = TsBadMonth

\* C9, as claimed: whatever the look-up tables hold, the output has at most
\* as many rows as the fact table, and no fact row has two output rows.
C9_AtMostOneRowPerFact ==
    Joined =>
        /\ Cardinality(yellow_opt_df.rows) <= Len(catalog.yellow)
        /\ \A i \in FactIds : Cardinality(OutputOf(i)) <= 1

\* C9, amended: so it is when no look-up frame of the joins holds a key
\* value twice.
UniqueKey(df, key) == \A r, q \in df.rows : r[key] = q[key] => r = q

UniqueKeys ==
    /\ UniqueKey(pu_taxi_zone_df, "pu_locationid")
    /\ UniqueKey(do_taxi_zone_df, "do_locationid")
    /\ UniqueKey(payment_type_df, "payment_type_id")
    /\ UniqueKey(rate_code_df, "ratecode_id")

C9_AtMostOneRowPerFactUniqueKeys ==
    (Joined /\ UniqueKeys) =>
        /\ Cardinality(yellow_opt_df.rows) <= Len(catalog.yellow)
        /\ \A i \in FactIds : Cardinality(OutputOf(i)) <= 1

C9_Witness ==
    /\ pc = "joined"
    /\ UniqueKeys
    /\ Len(catalog.yellow) >= 2
    /\ Cardinality(yellow_opt_df.rows) = Len(catalog.yellow)

\* C10: ratecode_name is the name of the payment-type row whose id is the
\* fact row's ratecodeid; a fact row that passes the first three joins is
\* kept exactly when its ratecodeid is an id of the payment-type table; the
\* output is the same whatever the rate-code table holds.
PassesThreeJoins(i) ==
    /\ \E z \in catalog.taxizone : z.locationid = Fact(i).pulocationid
    /\ \E z \in catalog.taxizone : z.locationid = Fact(i).dolocationid
    /\ \E n \in catalog.paymenttype : n.id = Fact(i).payment_type

C10_RateCodeFromPaymentTypeTable ==
    Joined =>
        /\ \A r \in yellow_opt_df.rows :
              \E n \in catalog.paymenttype :
                 n.id = Fact(r.rid).ratecodeid /\ n.name = r.cols["ratecode_name"]
        /\ \A i \in FactIds :
              PassesThreeJoins(i) =>
                 (OutputOf(i) # {} <=>
                    \E n \in catalog.paymenttype : n.id = Fact(i).ratecodeid)
        /\ pc = "joined" =>
              \A t \in RateCodeTables :
                 PipelineOutput([catalog EXCEPT !.ratecode = t]) = yellow_opt_df

C10_Witness ==
    /\ pc = "joined"
    /\ \E r \in yellow_opt_df.rows :
          \A n \in catalog.ratecode : n.id # Fact(r.rid).ratecodeid
    /\ \E i \in FactIds :
          /\ PassesThreeJoins(i)
          /\ OutputOf(i) = {}
          /\ \E n \in catalog.ratecode : n.id = Fact(i).ratecodeid

====
